---- MODULE Spec2Model ----
(***************************************************************************)
(* The token ledger of the auth service (auth/internal/server.go over the  *)
(* tokens table of common/database/models) as a state machine.             *)
(*                                                                         *)
(* Every RPC handler is broken at its database statements: a handler that  *)
(* issues one statement is one action, a handler that issues several       *)
(* (UpdateTokenCandlesLeft, GetTokenInfo) is one action per statement, so  *)
(* that handlers running in different gRPC goroutines interleave between   *)
(* statements exactly as they can on the shared *gorm.DB.                  *)
(*                                                                         *)
(* In front of it, the prices route of the gateway (middleware/auth.go,    *)
(* handlers/prices.go): one request at a time, broken at its gRPC calls to *)
(* the auth service and to the price source.                               *)
(*                                                                         *)
(* Behind it, the GetPrices handler of the price source (its exchange      *)
(* factory, its default limit, its sending loop); and beside it the        *)
(* event-stream router of gateway/internal/server.go.                      *)
(***************************************************************************)
EXTENDS Integers, Sequences, FiniteSets, Bags, TLC

\* ------------------------------------------------------------------ bounds
\* number of tokens CreateToken may issue in one behaviour
MaxTokens == 1
\* number of calls of several statements (UpdateTokenCandlesLeft with a
\* non-negative amount, GetTokenInfo) in one behaviour; each runs in its
\* own goroutine, so as many may be in flight at once
MaxCalls == 2
\* last instant of the wall clock
MaxNow == 3
\* number of daily candles an exchange holds for a ticker
MaxCandles == 3

\* --------------------------------------------------------- program constants
\* models.NewToken: CandlesLeft: 5000
DefaultCandles == 5000
\* time.Duration is a signed 64-bit count of nanoseconds and time.Second is
\* 1e9 of them; the model keeps the two's-complement wrap of the
\* multiplication at DurationBits bits with Second clock units per second.
DurationBits == 3
Second == 2

\* Token strings: 0 is the empty string, k >= 1 is the k-th string returned
\* by generateTokenString (a fresh UUID, so never empty and never repeated).
EmptyToken == 0
TokenStrings == 0..MaxTokens
\* the same with one token more, for the behaviours of two tokens side by side
PairTokens == 0..MaxTokens + 1

\* req.Permissions: lists of strings, a string being a sequence of characters
PermRead == <<"r">>
PermQuoted == <<"w", "\"">>
PermInputs == { <<>>, <<PermRead>>, <<PermRead, PermQuoted>> }
\* req.ExpiresIn: invalid, valid, and (2) large enough for the Duration to wrap
ExpiresInInputs == {-1, 0, 1, 2}
\* req.DecreaseCandles
DecreaseInputs == {-1, 0, 100, 4900}

\* gRPC status codes returned by the handlers
OK == "OK"
InvalidArgument == "InvalidArgument"
Internal == "Internal"
NotFound == "NotFound"

VARIABLES
    rows,      \* the tokens table: primary key ID -> row
    nextID,    \* rows inserted so far (AUTOINCREMENT) = token strings generated
    now,       \* time.Now()
    db,        \* the *gorm.DB handle of the Server: "ok", "nil" or "closed"
    calls,     \* the handlers in flight between two statements (a bag)
    started,   \* calls of several statements started so far
    debited,   \* per token string: sum of the amounts of its successful settles
    revoked,   \* token strings whose row RevokeToken deleted
    last,      \* the RPC step taken last, with its response
    gw,        \* the gateway's request on the prices route, and where it stands
    src        \* the price source's GetPrices call for the request at hand

vars == <<rows, nextID, now, db, calls, started, debited, revoked, last, gw, src>>

Max(a, b) == IF a >= b THEN a ELSE b

\* the elements of a list
Elems(list) == {list[i] : i \in 1..Len(list)}

\* ------------------------------------------------------- models.Token (JSON)
\* encoding/json string escaping of the characters the inputs contain
RECURSIVE EscapeJSON(_)
EscapeJSON(s) ==
    IF s = <<>> THEN <<>>
    ELSE (IF Head(s) \in {"\"", "\\"} THEN <<"\\", Head(s)>> ELSE <<Head(s)>>)
         \o EscapeJSON(Tail(s))

RECURSIVE MarshalElems(_)
MarshalElems(list) ==
    IF list = <<>> THEN <<>>
    ELSE <<"\"">> \o EscapeJSON(Head(list)) \o <<"\"">>
         \o (IF Len(list) > 1 THEN <<",">> ELSE <<>>)
         \o MarshalElems(Tail(list))

\* json.Marshal([]string)
Marshal(list) == <<"[">> \o MarshalElems(list) \o <<"]">>

\* json.Unmarshal into []string: a scanner over the text. st is "out"
\* (between elements), "in" (inside a string) or "esc" (after a backslash).
RECURSIVE Scan(_, _, _, _)
Scan(text, st, cur, acc) ==
    IF text = <<>> THEN acc
    ELSE LET c == Head(text)
             rest == Tail(text)
         IN  CASE st = "out" /\ c = "\"" -> Scan(rest, "in", <<>>, acc)
               [] st = "out" /\ c # "\"" -> Scan(rest, "out", cur, acc)
               [] st = "in" /\ c = "\\" -> Scan(rest, "esc", cur, acc)
               [] st = "in" /\ c = "\"" -> Scan(rest, "out", <<>>, Append(acc, cur))
               [] st = "in" /\ c \notin {"\\", "\""} ->
                      Scan(rest, "in", Append(cur, c), acc)
               [] st = "esc" -> Scan(rest, "in", Append(cur, c), acc)

Unmarshal(text) == Scan(text, "out", <<>>, <<>>)

\* Token.BeforeSave: Permissions -> PermissionsJSON
BeforeSave(t) ==
    [t EXCEPT !.PermissionsJSON =
        IF Len(t.Permissions) > 0 THEN Marshal(t.Permissions) ELSE <<"[", "]">>]

\* Token.AfterFind: PermissionsJSON -> Permissions
AfterFind(t) ==
    IF t.PermissionsJSON # <<>>
    THEN [t EXCEPT !.Permissions = Unmarshal(t.PermissionsJSON)]
    ELSE t

\* time.Duration(expiresIn) * time.Second, wrapping at the Duration's width
DurHalf == 2 ^ (DurationBits - 1)
WrapDuration(n) == ((n + DurHalf) % (2 * DurHalf)) - DurHalf
TTL(expiresIn) == WrapDuration(expiresIn * Second)

\* (faulty variant: another allotment)
NewTokenAllot500(permissions, expiresIn, tokenString) ==
    [ID |-> 0,
     TokenString |-> tokenString,
     Permissions |-> permissions,
     PermissionsJSON |-> <<>>,
     CandlesLeft |-> 500,
     ExpiresAt |-> now + TTL(expiresIn)]

\* models.NewToken; ID is 0 until the insert assigns it
NewToken(permissions, expiresIn, tokenString) ==
    [ID |-> 0,
     TokenString |-> tokenString,
     Permissions |-> permissions,
     PermissionsJSON |-> <<>>,
     CandlesLeft |-> DefaultCandles,
     ExpiresAt |-> now + TTL(expiresIn)]

\* (faulty variant: the comparison reversed)
IsExpiredReversed(t) == t.ExpiresAt > now

\* Token.IsExpired: time.Now().After(t.ExpiresAt)
IsExpired(t) == now > t.ExpiresAt

\* ------------------------------------------------------------- gorm statements
\* The columns of a row: Permissions is tagged gorm:"-" and is not a column.
Columns(t) ==
    [TokenString |-> t.TokenString,
     PermissionsJSON |-> t.PermissionsJSON,
     CandlesLeft |-> t.CandlesLeft,
     ExpiresAt |-> t.ExpiresAt]

\* gorm.io/gorm registers a model's hook only when the method has the type
\* func(*gorm.DB) error. Token.AfterFind and Token.BeforeSave are declared
\* func() error, so gorm runs neither; CreateToken calls BeforeSave itself,
\* nothing calls AfterFind.
HookRegistered == FALSE

\* IDs of the rows WHERE token_string = tok
Matching(tok) == {id \in DOMAIN rows : rows[id].TokenString = tok}

\* db.Where("token_string = ?", tok).First(&token): the row scanned into a
\* zero models.Token, Permissions staying nil unless the hook fills it
First(tok) ==
    LET id == CHOOSE i \in Matching(tok) : \A j \in Matching(tok) : i <= j
        t == [ID |-> id,
              TokenString |-> rows[id].TokenString,
              Permissions |-> <<>>,
              PermissionsJSON |-> rows[id].PermissionsJSON,
              CandlesLeft |-> rows[id].CandlesLeft,
              ExpiresAt |-> rows[id].ExpiresAt]
    IN  IF HookRegistered THEN AfterFind(t) ELSE t

\* db.Create(token): INSERT under the next AUTOINCREMENT key
Inserted(t) == [i \in DOMAIN rows \cup {nextID + 1} |->
                   IF i = nextID + 1 THEN Columns(t) ELSE rows[i]]

\* (faulty variant: the DELETE without its WHERE clause)
DeletedAll(ids) == << >>

\* DELETE FROM tokens WHERE id IN ids
Deleted(ids) == [i \in DOMAIN rows \ ids |-> rows[i]]

\* (faulty variant: db.Save in place of Update, which inserts the row when the
\* UPDATE finds none)
Upserted(id, v) ==
    [i \in DOMAIN rows \cup {id} |->
        IF i \in DOMAIN rows
        THEN (IF i = id THEN [rows[i] EXCEPT !.CandlesLeft = v] ELSE rows[i])
        ELSE [TokenString |-> id, PermissionsJSON |-> <<"[", "]">>,
              CandlesLeft |-> v, ExpiresAt |-> now]]

\* UPDATE tokens SET candles_left = v WHERE id = id
Updated(id, v) == [i \in DOMAIN rows |->
                      IF i = id THEN [rows[i] EXCEPT !.CandlesLeft = v] ELSE rows[i]]

\* ------------------------------------------------------------------ responses
NoQuota == -1

\* The record of the step taken last and, when the step ends a call, of the
\* call's response. pre is the candles_left the call's First loaded
\* (NoQuota: it loaded no row); clean says that no other call changed the
\* row between the call's First and its last statement.
Event(op, tok, arg, code, val, perms, pre, clean) ==
    [op |-> op, token |-> tok, arg |-> arg, code |-> code,
     val |-> val, perms |-> perms, pre |-> pre, clean |-> clean]

\* a step that ends no call
Step == Event("Step", EmptyToken, 0, OK, 0, <<>>, NoQuota, TRUE)

QuotaOf(tok) == IF Matching(tok) = {} THEN NoQuota ELSE First(tok).CandlesLeft

\* -------------------------------------------------------------------- gateway
\* The prices route of the gateway: middleware.Authenticate, then
\* handlers.PricesHandler.HandleGetHistoricalPrices, over the gRPC clients
\* of the auth service and of the price source.

\* net/http status codes written by the route
StatusOK == 200
StatusBadRequest == 400
StatusUnauthorized == 401
StatusForbidden == 403
StatusInternalServerError == 500
\* no response written yet
NoStatus == 0

\* the status of a gRPC call as its caller sees it: none yet, the status
\* the handler returned, or the client's own for a call that did not get
\* through or whose context ended
NoCode == ""
Unavailable == "Unavailable"
Canceled == "Canceled"

\* the decimal digits, the value of a digit being its position less one
Digits == <<"0", "1", "2", "3", "4", "5", "6", "7", "8", "9">>
DigitValue(c) == (CHOOSE i \in 1..Len(Digits) : Digits[i] = c) - 1

RECURSIVE DecimalValue(_, _)
DecimalValue(s, acc) ==
    IF s = <<>> THEN acc ELSE DecimalValue(Tail(s), 10 * acc + DigitValue(Head(s)))

\* strconv.ParseInt(s, 10, 64) for the strings of the inputs (none near the
\* ends of the int64 range): an optional sign, then one decimal digit or more
ParseInt(s) ==
    LET signed == s # <<>> /\ Head(s) \in {"+", "-"}
        body == IF signed THEN Tail(s) ELSE s
    IN  IF body = <<>> \/ \E i \in 1..Len(body) : body[i] \notin Elems(Digits)
        THEN [err |-> TRUE, v |-> 0]
        ELSE [err |-> FALSE,
              v |-> IF signed /\ Head(s) = "-" THEN 0 - DecimalValue(body, 0)
                    ELSE DecimalValue(body, 0)]

\* c.Query("limit"): absent, not a number, below the allotment, above it
LimitInputs == { <<>>, <<"x">>, <<"2">>, <<"6", "0", "0", "0">> }

\* whether a gRPC call reaches its server and its response the gateway
Net == {"up", "down"}

\* The request in the gateway. stage is the statement the request stands
\* at; ctx is c.Request.Context(); auth is what Authenticate made of the
\* x-api-key; info is the CandlesLeft GetTokenInfo returned (NoQuota: it
\* returned none); settleToken and settleArg are the request of the
\* UpdateTokenCandlesLeft call (NoQuota: no call); cut is the number of
\* records collected when the caller went away during the stream (NoQuota:
\* it did not); log is the calls made and the responses written, in order.
GatewayRequest(tok, limitStr, exchange) ==
    [stage |-> "Received", token |-> tok, limitStr |-> limitStr, limit |-> 0,
     exchange |-> exchange,
     ctx |-> "live", auth |-> "none", info |-> NoQuota, prices |-> <<>>,
     settleToken |-> NoQuota, settleArg |-> NoQuota, cut |-> NoQuota,
     route |-> "json", events |-> <<>>, served |-> 0, infoCode |-> NoCode,
     status |-> NoStatus, log |-> <<>>]

\* no request taken yet
NoRequest == [GatewayRequest(EmptyToken, <<>>, "") EXCEPT !.stage = "Idle"]

Logged(g, e) == [g EXCEPT !.log = Append(@, e)]

\* (faulty variant: the return after the response left out)
RespondAndGoOn(g, status) ==
    [g EXCEPT !.status = status, !.log = Append(@, "Respond")]

\* c.JSON / c.AbortWithStatusJSON followed by return: the response written,
\* the request over
Respond(g, status) ==
    [g EXCEPT !.stage = "Done", !.status = status, !.log = Append(@, "Respond")]

\* ------------------------------------------------------------ the price source
\* NewExchangeFactory registers the adapters of these exchanges
Registered == {"binance", "bybit"}

\* the exchanges named in the route
ExchangeInputs == {"binance", "kraken"}

\* the limit the handler uses when the request's is absent or not positive
DefaultLimit == 100

\* codes.Unknown: the status of an error that carries none
Unknown == "Unknown"

Min(a, b) == IF a < b THEN a ELSE b

\* (faulty variant: only a limit of zero replaced by the default)
SourceLimitZeroOnly(limit) == IF limit = 0 THEN DefaultLimit ELSE limit

\* limit := req.GetLimit(); if limit <= 0 { limit = 100 }
SourceLimit(limit) == IF limit <= 0 THEN DefaultLimit ELSE limit

\* what adapter.GetHistoricalPrices meets at the exchange: an error, or the
\* candles the exchange holds for the ticker
AdapterOutcomes ==
    {[err |-> TRUE, held |-> 0]} \cup {[err |-> FALSE, held |-> n] : n \in 0..MaxCandles}

\* the outcomes met behind the gateway: an error, an exchange without
\* candles for the ticker, an exchange with all of them
StreamOutcomes == {o \in AdapterOutcomes : o.err \/ o.held \in {0, MaxCandles}}

\* the Klines service with .Limit(limit): the newest limit candles held
GetHistoricalPrices(limit, outcome) == Min(limit, outcome.held)

\* the request the gateway builds: Exchange and Ticker, Limit not set
PricesRequest(g) == [exchange |-> g.exchange, limit |-> 0]

\* Server.GetPrices up to its sending loop: InvalidArgument for an exchange
\* without adapter (asked 0: the adapter not called), Internal for an
\* adapter's error, else n records to send
SourceGetPrices(req, outcome) ==
    LET call == [exchange |-> req.exchange, limit |-> req.limit,
                 asked |-> 0, n |-> 0, sent |-> 0, code |-> OK]
    IN  IF req.exchange \notin Registered
        THEN [call EXCEPT !.code = InvalidArgument]
        ELSE LET limit == SourceLimit(req.limit)
             IN  IF outcome.err
                 THEN [call EXCEPT !.asked = limit, !.code = Internal]
                 ELSE [call EXCEPT !.asked = limit,
                                   !.n = GetHistoricalPrices(limit, outcome)]

\* no call of the price source yet
NoCall == [exchange |-> "", limit |-> 0, asked |-> 0, n |-> 0, sent |-> 0, code |-> OK]

\* ------------------------------------------------------------ handlers in flight
\* A handler between two of its statements: the token it loaded (its ID,
\* its CandlesLeft), the request's amount, the candles_left it scanned,
\* whether another call has changed the row since its First, and whether
\* its Scan returned an error.
Call(op, stage, t, d) ==
    [op |-> op, stage |-> stage, token |-> t.TokenString, id |-> t.ID, d |-> d,
     cur |-> 0, loaded |-> t.CandlesLeft, perms |-> t.Permissions, dirty |-> FALSE,
     scanErr |-> FALSE]

RECURSIVE Copies(_, _)
Copies(B, S) ==
    IF S = {} THEN 0
    ELSE LET c == CHOOSE x \in S : TRUE IN B[c] + Copies(B, S \ {c})

Touched(c, ids) == IF c.id \in ids THEN [c EXCEPT !.dirty = TRUE] ELSE c

\* the calls in flight, those on the rows ids marked
Mark(B, ids) ==
    [r \in {Touched(c, ids) : c \in BagToSet(B)} |->
        Copies(B, {c \in BagToSet(B) : Touched(c, ids) = r})]

Without(c) == calls (-) SetToBag({c})

Init ==
    /\ rows = << >>
    /\ nextID = 0
    /\ now = 0
    /\ db = "ok"
    /\ calls = EmptyBag
    /\ started = 0
    /\ debited = [t \in PairTokens |-> 0]
    /\ revoked = {}
    /\ last = Step
    /\ gw = NoRequest
    /\ src = NoCall

\* the wall clock advances
Tick ==
    /\ now < MaxNow
    /\ now' = now + 1
    /\ last' = Step
    /\ UNCHANGED <<rows, nextID, db, calls, started, debited, revoked, gw, src>>

\* (faulty variant: the check written < 0)
InvalidExpiresInStrict(expiresIn) == expiresIn < 0

\* CreateToken's request validation: if req.ExpiresIn <= 0
InvalidExpiresIn(expiresIn) == expiresIn <= 0

\* Server.CreateToken, for a table that takes cap rows; val is the
\* response's ExpiresAt
CreateTokenWithin(perms, expiresIn, cap) ==
    /\ IF InvalidExpiresIn(expiresIn)
       THEN /\ last' = Event("Create", EmptyToken, expiresIn, InvalidArgument,
                             0, <<>>, NoQuota, TRUE)
            /\ UNCHANGED <<rows, nextID>>
       ELSE IF db = "nil"
       THEN /\ last' = Event("Create", EmptyToken, expiresIn, Internal,
                             0, <<>>, NoQuota, TRUE)
            /\ UNCHANGED <<rows, nextID>>
       ELSE /\ nextID < cap
            /\ LET token == BeforeSave(NewToken(perms, expiresIn, nextID + 1))
               IN  IF db = "closed"
                   THEN /\ last' = Event("Create", EmptyToken, expiresIn, Internal,
                                         0, <<>>, NoQuota, TRUE)
                        /\ UNCHANGED <<rows, nextID>>
                   ELSE /\ rows' = Inserted(token)
                        /\ nextID' = nextID + 1
                        /\ last' = Event("Create", token.TokenString, expiresIn, OK,
                                         token.ExpiresAt, perms, NoQuota, TRUE)
    /\ UNCHANGED <<now, db, calls, started, debited, revoked>>

\* Server.CreateToken
CreateToken(perms, expiresIn) == CreateTokenWithin(perms, expiresIn, MaxTokens)

\* (faulty variant: a token with no row answered with the error NotFound)
ValidateTokenStrict(tok) ==
    /\ last' =
         IF tok = EmptyToken
         THEN Event("Validate", tok, 0, InvalidArgument, 0, <<>>, NoQuota, TRUE)
         ELSE IF db = "nil" \/ db = "closed"
         THEN Event("Validate", tok, 0, Internal, 0, <<>>, NoQuota, TRUE)
         ELSE IF Matching(tok) = {}
         THEN Event("Validate", tok, 0, NotFound, 0, <<>>, NoQuota, TRUE)
         ELSE IF IsExpired(First(tok))
         THEN Event("Validate", tok, 0, OK, 0, <<>>, QuotaOf(tok), TRUE)
         ELSE Event("Validate", tok, 0, OK, 1, First(tok).Permissions,
                    QuotaOf(tok), TRUE)
    /\ UNCHANGED <<rows, nextID, now, db, calls, started, debited, revoked>>

\* Server.ValidateToken; val is IsValid (1 or 0)
ValidateToken(tok) ==
    /\ last' =
         IF tok = EmptyToken
         THEN Event("Validate", tok, 0, InvalidArgument, 0, <<>>, NoQuota, TRUE)
         ELSE IF db = "nil" \/ db = "closed"
         THEN Event("Validate", tok, 0, Internal, 0, <<>>, NoQuota, TRUE)
         ELSE IF Matching(tok) = {}
         THEN Event("Validate", tok, 0, OK, 0, <<>>, NoQuota, TRUE)
         ELSE IF IsExpired(First(tok))
         THEN Event("Validate", tok, 0, OK, 0, <<>>, QuotaOf(tok), TRUE)
         ELSE Event("Validate", tok, 0, OK, 1, First(tok).Permissions,
                    QuotaOf(tok), TRUE)
    /\ UNCHANGED <<rows, nextID, now, db, calls, started, debited, revoked>>

\* (faulty variant: the DELETE left out)
RevokeRowsNone(tok) == rows

\* The table after Server.RevokeToken's DELETE ... WHERE token_string = tok
RevokeRows(tok) ==
    IF tok = EmptyToken \/ db # "ok" THEN rows ELSE Deleted(Matching(tok))

\* Server.RevokeToken; val is Success (1 or 0)
RevokeToken(tok) ==
    /\ rows' = RevokeRows(tok)
    /\ last' =
         IF tok = EmptyToken
         THEN Event("Revoke", tok, 0, InvalidArgument, 0, <<>>, NoQuota, TRUE)
         ELSE IF db = "nil" \/ db = "closed"
         THEN Event("Revoke", tok, 0, Internal, 0, <<>>, NoQuota, TRUE)
         ELSE IF Matching(tok) = {}
         THEN Event("Revoke", tok, 0, OK, 0, <<>>, NoQuota, TRUE)
         ELSE Event("Revoke", tok, 0, OK, 1, <<>>, QuotaOf(tok), TRUE)
    /\ calls' = Mark(calls, DOMAIN rows \ DOMAIN rows')
    /\ revoked' = IF rows' # rows THEN revoked \cup {tok} ELSE revoked
    /\ UNCHANGED <<nextID, now, db, started, debited>>

\* Server.UpdateTokenCandlesLeft with DecreaseCandles < 0: RevokeToken is
\* called, its response and error are dropped, the amount is returned
SettleNegative(tok, d) ==
    /\ d < 0
    /\ rows' = RevokeRows(tok)
    /\ last' = Event("Settle", tok, d, OK, d, <<>>, QuotaOf(tok), TRUE)
    /\ calls' = Mark(calls, DOMAIN rows \ DOMAIN rows')
    /\ revoked' = IF rows' # rows THEN revoked \cup {tok} ELSE revoked
    /\ UNCHANGED <<nextID, now, db, started, debited>>

\* (faulty variant: a token with no row taken as one with nothing left, the
\* call answered with 0 and no error)
SettleFindLenient(tok, d) ==
    /\ d >= 0
    /\ started < MaxCalls
    /\ started' = started + 1
    /\ IF db = "nil" \/ db = "closed"
       THEN /\ last' = Event("Settle", tok, d, Internal, 0, <<>>, NoQuota, TRUE)
            /\ UNCHANGED calls
       ELSE IF Matching(tok) = {}
       THEN /\ last' = Event("Settle", tok, d, OK, 0, <<>>, NoQuota, TRUE)
            /\ UNCHANGED calls
       ELSE /\ calls' = calls (+) SetToBag({Call("Settle", "scan", First(tok), d)})
            /\ last' = Step
    /\ UNCHANGED <<rows, nextID, now, db, debited, revoked>>

\* Server.UpdateTokenCandlesLeft with DecreaseCandles >= 0, up to its First
SettleFind(tok, d) ==
    /\ d >= 0
    /\ started < MaxCalls
    /\ started' = started + 1
    /\ IF db = "nil" \/ db = "closed"
       THEN /\ last' = Event("Settle", tok, d, Internal, 0, <<>>, NoQuota, TRUE)
            /\ UNCHANGED calls
       ELSE IF Matching(tok) = {}
       THEN /\ last' = Event("Settle", tok, d, NotFound, 0, <<>>, NoQuota, TRUE)
            /\ UNCHANGED calls
       ELSE /\ calls' = calls (+) SetToBag({Call("Settle", "scan", First(tok), d)})
            /\ last' = Step
    /\ UNCHANGED <<rows, nextID, now, db, debited, revoked>>

\* (faulty variant: the allotment read in place of the stored quota)
ScanCandlesLeftAllotment(id) ==
    IF db = "ok" /\ id \in DOMAIN rows THEN DefaultCandles ELSE 0

\* db.Model(&token).Select("candles_left").Scan(&v): SELECT candles_left
\* FROM tokens WHERE id = token.ID; v keeps its zero value when the
\* statement fails or returns no row
ScanCandlesLeft(id) ==
    IF db = "ok" /\ id \in DOMAIN rows THEN rows[id].CandlesLeft ELSE 0

\* UpdateTokenCandlesLeft: the read of currentCandlesLeft
SettleScan(c) ==
    /\ c.op = "Settle" /\ c.stage = "scan"
    /\ calls' = Without(c) (+)
                SetToBag({[c EXCEPT !.stage = "write", !.cur = ScanCandlesLeft(c.id)]})
    /\ last' = Step
    /\ UNCHANGED <<rows, nextID, now, db, started, debited, revoked>>

\* UpdateTokenCandlesLeft: the read of currentCandlesLeft fails though the
\* store is there (the statement's error is logged and the value set to 0);
\* the statements after it find the store as it is
SettleScanFails(c) ==
    /\ c.op = "Settle" /\ c.stage = "scan"
    /\ db = "ok"
    /\ calls' = Without(c) (+)
                SetToBag({[c EXCEPT !.stage = "write", !.cur = 0, !.scanErr = TRUE]})
    /\ last' = Step
    /\ UNCHANGED <<rows, nextID, now, db, started, debited, revoked>>

\* (faulty variant: the difference without the clamp at 0)
NewCandlesLeftUnclamped(cur, d) == cur - d

\* newCandlesLeft := max(0, currentCandlesLeft-req.DecreaseCandles)
NewCandlesLeft(cur, d) == Max(0, cur - d)

\* (faulty variant: the row deleted only below 0, a row at 0 updated in place)
SettleRowsKeepZero(id, new) ==
    IF db # "ok" THEN rows
    ELSE IF new < 0 THEN Deleted({id})
    ELSE Updated(id, new)

\* The table after UpdateTokenCandlesLeft's last statement: the DELETE when
\* newCandlesLeft <= 0, the UPDATE otherwise
SettleRows(id, new) ==
    IF db # "ok" THEN rows
    ELSE IF new <= 0 THEN Deleted({id})
    ELSE Updated(id, new)

\* UpdateTokenCandlesLeft with an amount d >= 0 as a function of the stored
\* quota q of its token (NoQuota: no row, before or after): NotFound leaves
\* no row, newCandlesLeft <= 0 deletes the row, else the row stores it
SettleOnce(q, d) ==
    IF q = NoQuota THEN NoQuota
    ELSE IF NewCandlesLeft(q, d) <= 0 THEN NoQuota
    ELSE NewCandlesLeft(q, d)

\* UpdateTokenCandlesLeft: its last statement and the response
SettleWrite(c) ==
    /\ c.op = "Settle" /\ c.stage = "write"
    /\ LET new == NewCandlesLeft(c.cur, c.d)
           failed == new > 0 /\ db # "ok"
       IN  /\ rows' = SettleRows(c.id, new)
           /\ last' = Event("Settle", c.token, c.d,
                            IF failed THEN Internal ELSE OK,
                            IF failed THEN 0 ELSE new,
                            <<>>, c.loaded, ~c.dirty)
           /\ debited' = IF failed THEN debited
                         ELSE [debited EXCEPT ![c.token] = @ + c.d]
    /\ calls' = IF rows' # rows THEN Mark(Without(c), {c.id}) ELSE Without(c)
    /\ UNCHANGED <<nextID, now, db, started, revoked>>

\* Server.GetTokenInfo up to its First
InfoFind(tok) ==
    /\ started < MaxCalls
    /\ started' = started + 1
    /\ IF tok = EmptyToken
       THEN /\ last' = Event("Info", tok, 0, InvalidArgument, 0, <<>>, NoQuota, TRUE)
            /\ UNCHANGED calls
       ELSE IF db = "nil" \/ db = "closed"
       THEN /\ last' = Event("Info", tok, 0, Internal, 0, <<>>, NoQuota, TRUE)
            /\ UNCHANGED calls
       ELSE IF Matching(tok) = {}
       THEN /\ last' = Event("Info", tok, 0, NotFound, 0, <<>>, NoQuota, TRUE)
            /\ UNCHANGED calls
       ELSE /\ calls' = calls (+) SetToBag({Call("Info", "scan", First(tok), 0)})
            /\ last' = Step
    /\ UNCHANGED <<rows, nextID, now, db, debited, revoked>>

\* (faulty variant: the inspection itself charged, one candle taken off the
\* row it read)
InfoScanCharging(c) ==
    /\ c.op = "Info" /\ c.stage = "scan"
    /\ last' = Event("Info", c.token, 0, OK, ScanCandlesLeft(c.id), c.perms,
                     c.loaded, ~c.dirty)
    /\ calls' = Without(c)
    /\ rows' = Updated(c.id, ScanCandlesLeft(c.id) - 1)
    /\ UNCHANGED <<nextID, now, db, started, debited, revoked>>

\* GetTokenInfo: the read of candlesLeft, and the response; val is the
\* response's CandlesLeft
InfoScan(c) ==
    /\ c.op = "Info" /\ c.stage = "scan"
    /\ last' = Event("Info", c.token, 0, OK, ScanCandlesLeft(c.id), c.perms,
                     c.loaded, ~c.dirty)
    /\ calls' = Without(c)
    /\ UNCHANGED <<rows, nextID, now, db, started, debited, revoked>>

\* ------------------------------------------------------------ gateway: route
\* what a step of the gateway that runs no handler of the auth service
\* leaves alone
NoServerStep ==
    /\ last' = Step
    /\ UNCHANGED <<rows, nextID, now, db, calls, started, debited, revoked>>

\* GET /api/v1/prices/:exchange/:ticker arrives with its x-api-key header
\* (EmptyToken: none), its limit query and its exchange; the requests are taken one after
\* the other, the next when the handlers the last one started have returned
Request(tok, limitStr, exchange) ==
    /\ gw.stage \in {"Idle", "Done"}
    /\ calls = EmptyBag
    /\ gw' = GatewayRequest(tok, limitStr, exchange)
    /\ NoServerStep

\* the caller goes away: net/http cancels c.Request.Context()
Disconnect ==
    /\ gw.stage \notin {"Idle", "Done"}
    /\ gw.ctx = "live"
    /\ gw' = [gw EXCEPT !.ctx = "canceled",
                        !.cut = IF gw.stage = "Streaming" THEN Len(gw.prices)
                                ELSE NoQuota]
    /\ NoServerStep

\* (faulty variant: resp.IsValid not looked at)
AuthOutcomeUnchecked(failed, isValid) ==
    IF failed THEN "error" ELSE "valid"

\* Authenticate: err != nil, then !resp.IsValid
AuthOutcome(failed, isValid) ==
    IF failed THEN "error"
    ELSE IF ~isValid THEN "invalid"
    ELSE "valid"

\* where Authenticate leaves the request: c.Next() or the 401
Authenticated(g, outcome) ==
    IF outcome = "valid"
    THEN [g EXCEPT !.auth = outcome, !.stage = "Authenticated"]
    ELSE Respond([g EXCEPT !.auth = outcome], StatusUnauthorized)

\* middleware.AuthMiddleware.Authenticate; the ValidateToken call runs under
\* a context that ends with the request's or after 5 seconds
Authenticate ==
    /\ gw.stage = "Received"
    /\ IF gw.token = EmptyToken
       THEN /\ gw' = Authenticated(gw, "missing")
            /\ NoServerStep
       ELSE \E net \in Net :
              IF net = "down" \/ gw.ctx = "canceled"
              THEN /\ gw' = Authenticated(Logged(gw, "Validate"),
                                          AuthOutcome(TRUE, FALSE))
                   /\ NoServerStep
              ELSE /\ ValidateToken(gw.token)
                   /\ gw' = Authenticated(Logged(gw, "Validate"),
                                          AuthOutcome(last'.code # OK, last'.val = 1))

\* (faulty variant: an error of GetTokenInfo answered with the 403)
HandleGetHistoricalPricesFailClosed ==
    /\ gw.stage = "Authenticated"
    /\ LET parsed == ParseInt(gw.limitStr)
           g == [gw EXCEPT !.limit = IF gw.limitStr # <<>> THEN parsed.v ELSE 0]
       IN  IF gw.limitStr # <<>> /\ parsed.err
           THEN /\ gw' = Respond(gw, StatusBadRequest)
                /\ NoServerStep
           ELSE IF gw.token = EmptyToken
           THEN /\ gw' = [g EXCEPT !.stage = "Checked"]
                /\ NoServerStep
           ELSE \E net \in Net :
                  IF net = "down"
                  THEN /\ gw' = Respond([Logged(g, "Inspect") EXCEPT
                                            !.infoCode = Unavailable],
                                        StatusForbidden)
                       /\ NoServerStep
                  ELSE /\ InfoFind(gw.token)
                       /\ gw' = IF last'.op = "Info"
                                THEN Respond([Logged(g, "Inspect") EXCEPT
                                                !.infoCode = last'.code],
                                             StatusForbidden)
                                ELSE [Logged(g, "Inspect") EXCEPT !.stage = "Inspecting"]


\* HandleGetHistoricalPrices up to its GetTokenInfo call: the limit parsed
\* (0 when the query has none), the call made when the token is not empty,
\* its error logged and passed over
HandleGetHistoricalPrices ==
    /\ gw.stage = "Authenticated"
    /\ LET parsed == ParseInt(gw.limitStr)
           g == [gw EXCEPT !.limit = IF gw.limitStr # <<>> THEN parsed.v ELSE 0]
       IN  IF gw.limitStr # <<>> /\ parsed.err
           THEN /\ gw' = Respond(gw, StatusBadRequest)
                /\ NoServerStep
           ELSE IF gw.token = EmptyToken
           THEN /\ gw' = [g EXCEPT !.stage = "Checked"]
                /\ NoServerStep
           ELSE \E net \in Net :
                  IF net = "down"
                  THEN /\ gw' = [Logged(g, "Inspect") EXCEPT
                                   !.stage = "Checked", !.infoCode = Unavailable]
                       /\ NoServerStep
                  ELSE /\ InfoFind(gw.token)
                       /\ gw' = IF last'.op = "Info"
                                THEN [Logged(g, "Inspect") EXCEPT
                                        !.stage = "Checked", !.infoCode = last'.code]
                                ELSE [Logged(g, "Inspect") EXCEPT !.stage = "Inspecting"]

ForbiddenExhaustedOnly(candlesLeft, limit) == candlesLeft <= 0

\* tokenInfo.CandlesLeft <= 0 || tokenInfo.CandlesLeft < limit
Forbidden(candlesLeft, limit) == candlesLeft <= 0 \/ candlesLeft < limit

\* GetTokenInfo returns its response: the 403, or on to the stream
GetTokenInfoReturn ==
    /\ gw.stage = "Inspecting"
    /\ gw.ctx = "live"
    /\ \E c \in BagToSet(calls) :
         /\ InfoScan(c)
         /\ gw' = IF Forbidden(last'.val, gw.limit)
                  THEN Respond([gw EXCEPT !.info = last'.val, !.infoCode = OK],
                               StatusForbidden)
                  ELSE [gw EXCEPT !.info = last'.val, !.infoCode = OK,
                                  !.stage = "Checked"]

\* GetTokenInfo returns the context's error to the gateway, the handler of
\* the auth service running on
GetTokenInfoCanceled ==
    /\ gw.stage = "Inspecting"
    /\ gw.ctx = "canceled"
    /\ gw' = [gw EXCEPT !.stage = "Checked", !.infoCode = Canceled]
    /\ NoServerStep

\* h.pricesClient.GetPrices: the 500, or the stream opened and the handler
\* of the price source started on the request, which carries the exchange
\* and the ticker and leaves Limit at its zero value
GetPrices ==
    /\ gw.stage = "Checked"
    /\ \E net \in Net :
         IF net = "down"
         THEN /\ gw' = Respond(gw, StatusInternalServerError)
              /\ UNCHANGED src
         ELSE /\ gw' = [Logged(gw, "Open") EXCEPT !.stage = "Streaming"]
              /\ \E outcome \in StreamOutcomes :
                   src' = SourceGetPrices(PricesRequest(gw), outcome)
    /\ NoServerStep

\* stream.Recv() in the loop: the next record sent by the price source
\* appended; after the last one io.EOF, or the error status its handler
\* returned, and the 500; at any time an error of the network or of the
\* context, and the 500
Recv ==
    /\ gw.stage = "Streaming"
    /\ \E failed \in BOOLEAN :
         IF failed
         THEN /\ gw' = Respond(Logged(gw, "RecvErr"), StatusInternalServerError)
              /\ UNCHANGED src
         ELSE IF src.sent < src.n
         THEN /\ gw' = [gw EXCEPT !.prices = Append(@, src.sent + 1)]
              /\ src' = [src EXCEPT !.sent = @ + 1]
         ELSE /\ gw' = IF src.code = OK
                       THEN [Logged(gw, "EOF") EXCEPT !.stage = "Collected"]
                       ELSE Respond(Logged(gw, "RecvErr"),
                                    StatusInternalServerError)
              /\ UNCHANGED src
    /\ NoServerStep

\* (faulty variant: the limit of the request charged, not what was collected)
DecreaseCandlesLimit(g) == g.limit

\* DecreaseCandles: int64(len(prices))
DecreaseCandles(g) == Len(g.prices)

\* the request with its UpdateTokenCandlesLeft call made
Settling(g) ==
    [Logged(g, "Settle") EXCEPT !.settleToken = g.token,
                                !.settleArg = DecreaseCandles(g)]

\* (faulty variant: the error of the call answered with a 500)
UpdateCandlesStrict ==
    /\ gw.stage = "Collected"
    /\ IF gw.token = EmptyToken
       THEN /\ gw' = Respond(gw, StatusOK)
            /\ NoServerStep
       ELSE \E net \in Net :
              IF net = "down"
              THEN /\ gw' = Respond(Settling(gw), StatusInternalServerError)
                   /\ NoServerStep
              ELSE /\ SettleFind(gw.token, DecreaseCandles(gw))
                   /\ gw' = IF last'.op = "Settle"
                            THEN Respond(Settling(gw), StatusInternalServerError)
                            ELSE [Settling(gw) EXCEPT !.stage = "Settling"]

\* HandleGetHistoricalPrices after the loop: the UpdateTokenCandlesLeft
\* call made when the token is not empty, its error logged, the 200 with
\* the records
UpdateCandles ==
    /\ gw.stage = "Collected"
    /\ IF gw.token = EmptyToken
       THEN /\ gw' = Respond(gw, StatusOK)
            /\ NoServerStep
       ELSE \E net \in Net :
              IF net = "down"
              THEN /\ gw' = Respond(Settling(gw), StatusOK)
                   /\ NoServerStep
              ELSE /\ SettleFind(gw.token, DecreaseCandles(gw))
                   /\ gw' = IF last'.op = "Settle"
                            THEN Respond(Settling(gw), StatusOK)
                            ELSE [Settling(gw) EXCEPT !.stage = "Settling"]

\* UpdateTokenCandlesLeft returns its response or its error, then the 200
UpdateCandlesReturn ==
    /\ gw.stage = "Settling"
    /\ gw.ctx = "live"
    /\ \E c \in BagToSet(calls) :
         /\ SettleWrite(c)
         /\ gw' = Respond(gw, StatusOK)

\* (faulty variant: the call made again after the context's error)
UpdateCandlesCanceledRetry ==
    /\ gw.stage = "Settling"
    /\ gw.ctx = "canceled"
    /\ gw' = [gw EXCEPT !.stage = "Collected"]
    /\ NoServerStep

\* UpdateTokenCandlesLeft returns the context's error to the gateway, the
\* handler of the auth service running on
UpdateCandlesCanceled ==
    /\ gw.stage = "Settling"
    /\ gw.ctx = "canceled"
    /\ gw' = Respond(gw, StatusOK)
    /\ NoServerStep

\* The route with the auth service behind it: tokens are created and
\* revoked by other callers meanwhile, and a handler the gateway no longer
\* waits for runs to its end.
NextGateway ==
    \/ \E t \in TokenStrings, l \in LimitInputs, e \in ExchangeInputs :
         Request(t, l, e) /\ src' = NoCall
    \/ Disconnect /\ UNCHANGED src
    \/ Authenticate /\ UNCHANGED src
    \/ HandleGetHistoricalPrices /\ UNCHANGED src
    \/ GetTokenInfoReturn /\ UNCHANGED src
    \/ GetTokenInfoCanceled /\ UNCHANGED src
    \/ GetPrices
    \/ Recv
    \/ UpdateCandles /\ UNCHANGED src
    \/ UpdateCandlesReturn /\ UNCHANGED src
    \/ UpdateCandlesCanceled /\ UNCHANGED src
    \/ CreateToken(<<PermRead>>, 1) /\ UNCHANGED <<gw, src>>
    \/ \E t \in TokenStrings : RevokeToken(t) /\ UNCHANGED <<gw, src>>
    \/ \E c \in BagToSet(calls) : SettleScan(c) /\ UNCHANGED <<gw, src>>
    \/ \E c \in BagToSet(calls) :
         gw.stage # "Inspecting" /\ InfoScan(c) /\ UNCHANGED <<gw, src>>
    \/ \E c \in BagToSet(calls) :
         gw.stage # "Settling" /\ SettleWrite(c) /\ UNCHANGED <<gw, src>>

SpecGateway == Init /\ [][NextGateway]_vars

\* The steps the gateway takes without waiting for an answer: the
\* middleware, whose ValidateToken runs under a context with a timeout of 5
\* seconds, and the statements of the handler that start a call. The
\* answers to GetTokenInfo, Recv and UpdateTokenCandlesLeft are awaited
\* under c.Request.Context(), which has no deadline: they come if the other
\* service answers, or if the caller disconnects.
GatewaySteps ==
    \/ Authenticate /\ UNCHANGED src
    \/ HandleGetHistoricalPrices /\ UNCHANGED src
    \/ GetPrices
    \/ UpdateCandles /\ UNCHANGED src

SpecGatewayFair == SpecGateway /\ WF_vars(GatewaySteps)

\* ------------------------------------------------------------ a token nearly spent
\* The requests of one token one after the other, from the state in which
\* earlier requests have been answered 200 with all but a few of the
\* token's 5000 candles, each settled with the number of its records.

\* the records returned with 200 to the requests of g's token so far
Served(g) == g.served + (IF g.status = StatusOK THEN Len(g.prices) ELSE 0)

InitSpent ==
    /\ now = 0
    /\ nextID = 1
    /\ \E left \in 1..MaxCandles :
         /\ rows = [i \in {1} |->
                      [Columns(BeforeSave(NewToken(<<PermRead>>, 1, 1)))
                         EXCEPT !.CandlesLeft = left]]
         /\ debited = [t \in PairTokens |-> IF t = 1 THEN DefaultCandles - left ELSE 0]
         /\ gw = [NoRequest EXCEPT !.token = 1, !.served = DefaultCandles - left]
    /\ db = "ok"
    /\ calls = EmptyBag
    /\ started = 0
    /\ revoked = {}
    /\ last = Step
    /\ src = NoCall

\* the next request of the token arrives, as long as the allotment has not
\* been exceeded
RequestNext(limitStr, exchange) ==
    /\ gw.stage \in {"Idle", "Done"}
    /\ calls = EmptyBag
    /\ Served(gw) <= DefaultCandles
    /\ gw' = [GatewayRequest(gw.token, limitStr, exchange) EXCEPT
                !.served = Served(gw)]
    /\ src' = NoCall
    /\ NoServerStep

NextSpent ==
    \/ \E l \in LimitInputs, e \in ExchangeInputs : RequestNext(l, e)
    \/ Authenticate /\ UNCHANGED src
    \/ HandleGetHistoricalPrices /\ UNCHANGED src
    \/ GetTokenInfoReturn /\ UNCHANGED src
    \/ GetPrices
    \/ Recv
    \/ UpdateCandles /\ UNCHANGED src
    \/ \E c \in BagToSet(calls) : SettleScan(c) /\ UNCHANGED <<gw, src>>
    \/ UpdateCandlesReturn /\ UNCHANGED src

SpecSpent == InitSpent /\ [][NextSpent]_vars

\* ------------------------------------------------------------ the event-stream route
\* gateway/internal/server.go: the router whose middleware reads the
\* Authorization header and whose handler relays the stream as server-sent
\* events.

\* c.SSEvent("price", price): the event pushed for a record
SSEvent(price) == [event |-> "price", data |-> price]

\* GET /api/v1/prices/:exchange/:ticker arrives at this router with its
\* Authorization header (EmptyToken: none)
SSERequest(tok, exchange) ==
    /\ gw.stage \in {"Idle", "Done"}
    /\ calls = EmptyBag
    /\ gw' = [GatewayRequest(tok, <<>>, exchange) EXCEPT
                !.stage = "SSEReceived", !.route = "sse"]
    /\ src' = NoCall
    /\ NoServerStep

\* Server.authMiddleware: the 401 without header or when ValidateToken
\* returns an error; otherwise c.Next(), whatever the response says
authMiddleware ==
    /\ gw.stage = "SSEReceived"
    /\ IF gw.token = EmptyToken
       THEN /\ gw' = Respond([gw EXCEPT !.auth = "missing"], StatusUnauthorized)
            /\ NoServerStep
       ELSE \E net \in Net :
              IF net = "down"
              THEN /\ gw' = Respond([Logged(gw, "Validate") EXCEPT !.auth = "error"],
                                    StatusUnauthorized)
                   /\ NoServerStep
              ELSE /\ ValidateToken(gw.token)
                   /\ gw' = IF last'.code # OK
                            THEN Respond([Logged(gw, "Validate") EXCEPT !.auth = "error"],
                                         StatusUnauthorized)
                            ELSE [Logged(gw, "Validate") EXCEPT
                                    !.auth = AuthOutcome(FALSE, last'.val = 1),
                                    !.stage = "SSEAuthenticated"]
    /\ UNCHANGED src

\* Server.handleGetHistoricalPrices up to its loop: the 500, or the stream
\* of the historical service opened, which will deliver some records and
\* then io.EOF or an error
handleGetHistoricalPrices ==
    /\ gw.stage = "SSEAuthenticated"
    /\ \E net \in Net :
         IF net = "down"
         THEN /\ gw' = Respond(gw, StatusInternalServerError)
              /\ UNCHANGED src
         ELSE /\ gw' = [Logged(gw, "Open") EXCEPT !.stage = "SSEStreaming"]
              /\ \E n \in 0..MaxCandles, code \in {OK, Internal} :
                   src' = [NoCall EXCEPT !.exchange = gw.exchange, !.n = n,
                                         !.code = code]
    /\ NoServerStep

\* one turn of the loop: the record received pushed as an event and
\* flushed; on io.EOF or any other error the loop left and the handler
\* returned, the response being the 200 of the event stream
SSERecv ==
    /\ gw.stage = "SSEStreaming"
    /\ \E failed \in BOOLEAN :
         IF ~failed /\ src.sent < src.n
         THEN /\ gw' = [gw EXCEPT !.prices = Append(@, src.sent + 1),
                                  !.events = Append(@, SSEvent(src.sent + 1))]
              /\ src' = [src EXCEPT !.sent = @ + 1]
         ELSE /\ gw' = Respond(Logged(gw, IF ~failed /\ src.code = OK
                                          THEN "EOF" ELSE "RecvErr"), StatusOK)
              /\ UNCHANGED src
    /\ NoServerStep

NextSSE ==
    \/ \E t \in TokenStrings, e \in ExchangeInputs : SSERequest(t, e)
    \/ authMiddleware
    \/ handleGetHistoricalPrices
    \/ SSERecv
    \/ CreateToken(<<PermRead>>, 1) /\ UNCHANGED <<gw, src>>
    \/ \E t \in TokenStrings : RevokeToken(t) /\ UNCHANGED <<gw, src>>

SpecSSE == Init /\ [][NextSSE]_vars

\* ------------------------------------------------------------ the price source called directly
\* the exchanges and the limits a client of the Prices service may send
DirectExchanges == Registered \cup {"kraken"}
DirectLimits == {-1, 0, 1, 2, 200}

\* a client opens GetPrices: the handler runs up to its sending loop
CallGetPrices(exchange, limit) ==
    /\ \E outcome \in AdapterOutcomes :
         src' = SourceGetPrices([exchange |-> exchange, limit |-> limit], outcome)
    /\ UNCHANGED <<rows, nextID, now, db, calls, started, debited, revoked, last, gw>>

\* (faulty variant: the loop goes on after a Send that failed)
SendPastError ==
    /\ src.sent < src.n
    /\ src' = [src EXCEPT !.sent = @ + 1]
    /\ UNCHANGED <<rows, nextID, now, db, calls, started, debited, revoked, last, gw>>

\* stream.Send(price) of the next record
Send ==
    /\ src.code = OK
    /\ src.sent < src.n
    /\ src' = [src EXCEPT !.sent = @ + 1]
    /\ UNCHANGED <<rows, nextID, now, db, calls, started, debited, revoked, last, gw>>

\* stream.Send fails: the handler returns the error, which carries no status
SendFails ==
    /\ src.code = OK
    /\ src.sent < src.n
    /\ src' = [src EXCEPT !.code = Unknown]
    /\ UNCHANGED <<rows, nextID, now, db, calls, started, debited, revoked, last, gw>>

NextPrices ==
    \/ \E e \in DirectExchanges, l \in DirectLimits : CallGetPrices(e, l)
    \/ Send
    \/ SendFails

SpecPrices == Init /\ [][NextPrices]_vars

\* Permissions play no part in what the handlers do to the table, and the
\* clock none outside ValidateToken: the ledger's interleavings are explored
\* with one permission list and a clock standing still, ...
Next ==
    \/ \E e \in {-1, 0, 1} : CreateToken(<<PermRead>>, e) /\ UNCHANGED <<gw, src>>
    \/ \E t \in TokenStrings : ValidateToken(t) /\ UNCHANGED <<gw, src>>
    \/ \E t \in TokenStrings : RevokeToken(t) /\ UNCHANGED <<gw, src>>
    \/ \E t \in TokenStrings, d \in DecreaseInputs : SettleNegative(t, d) /\ UNCHANGED <<gw, src>>
    \/ \E t \in TokenStrings, d \in DecreaseInputs : SettleFind(t, d) /\ UNCHANGED <<gw, src>>
    \/ \E c \in BagToSet(calls) : SettleScan(c) /\ UNCHANGED <<gw, src>>
    \/ \E c \in BagToSet(calls) : SettleWrite(c) /\ UNCHANGED <<gw, src>>
    \/ \E t \in TokenStrings : InfoFind(t) /\ UNCHANGED <<gw, src>>
    \/ \E c \in BagToSet(calls) : InfoScan(c) /\ UNCHANGED <<gw, src>>

Spec == Init /\ [][Next]_vars

\* ------------------------------------------------------------ two tokens side by side
\* The calls that write the table, for a table that takes one token more:
\* the handlers of different tokens interleave between their statements.
\* the amounts settled there: a negative one, and one that leaves a quota
\* the first time and none the second
PairDecrease == {-1, 4900}

NextPair ==
    \/ CreateTokenWithin(<<PermRead>>, 1, MaxTokens + 1) /\ UNCHANGED <<gw, src>>
    \/ \E t \in PairTokens \ {EmptyToken} : RevokeToken(t) /\ UNCHANGED <<gw, src>>
    \/ \E t \in PairTokens \ {EmptyToken}, d \in PairDecrease : SettleNegative(t, d) /\ UNCHANGED <<gw, src>>
    \/ \E t \in PairTokens \ {EmptyToken}, d \in PairDecrease : SettleFind(t, d) /\ UNCHANGED <<gw, src>>
    \/ \E c \in BagToSet(calls) : SettleScan(c) /\ UNCHANGED <<gw, src>>
    \/ \E c \in BagToSet(calls) : SettleWrite(c) /\ UNCHANGED <<gw, src>>

SpecPair == Init /\ [][NextPair]_vars

\* ... and the clock, the permissions and the expiry with the calls of one
\* statement.
NextClock ==
    \/ Tick
    \/ \E p \in PermInputs, e \in ExpiresInInputs : CreateToken(p, e) /\ UNCHANGED <<gw, src>>
    \/ \E t \in TokenStrings : ValidateToken(t) /\ UNCHANGED <<gw, src>>
    \/ \E t \in TokenStrings : RevokeToken(t) /\ UNCHANGED <<gw, src>>
    \/ \E t \in TokenStrings, d \in DecreaseInputs : SettleNegative(t, d) /\ UNCHANGED <<gw, src>>

SpecClock == Init /\ [][NextClock]_vars

\* One call at a time: a call starts when no other is in flight.
Quiet == calls = EmptyBag

NextSeq ==
    \/ Quiet /\ \E e \in {-1, 0, 1} : CreateToken(<<PermRead>>, e) /\ UNCHANGED <<gw, src>>
    \/ Quiet /\ \E t \in TokenStrings : ValidateToken(t) /\ UNCHANGED <<gw, src>>
    \/ Quiet /\ \E t \in TokenStrings : RevokeToken(t) /\ UNCHANGED <<gw, src>>
    \/ Quiet /\ \E t \in TokenStrings, d \in DecreaseInputs : SettleNegative(t, d) /\ UNCHANGED <<gw, src>>
    \/ Quiet /\ \E t \in TokenStrings, d \in DecreaseInputs : SettleFind(t, d) /\ UNCHANGED <<gw, src>>
    \/ \E c \in BagToSet(calls) : SettleScan(c) /\ UNCHANGED <<gw, src>>
    \/ \E c \in BagToSet(calls) : SettleWrite(c) /\ UNCHANGED <<gw, src>>
    \/ Quiet /\ \E t \in TokenStrings : InfoFind(t) /\ UNCHANGED <<gw, src>>
    \/ \E c \in BagToSet(calls) : InfoScan(c) /\ UNCHANGED <<gw, src>>

SpecSeq == Init /\ [][NextSeq]_vars

\* The server built on a nil *gorm.DB (NewServer(nil)), or on one whose
\* connection is closed while it serves: the calls taken one at a time.
InitStore ==
    /\ rows = << >>
    /\ nextID = 0
    /\ now = 0
    /\ db \in {"ok", "nil"}
    /\ calls = EmptyBag
    /\ started = 0
    /\ debited = [t \in PairTokens |-> 0]
    /\ revoked = {}
    /\ last = Step
    /\ gw = NoRequest
    /\ src = NoCall

\* the connection under the *gorm.DB is closed: every statement fails from now on
StoreClose ==
    /\ db = "ok"
    /\ db' = "closed"
    /\ last' = Step
    /\ UNCHANGED <<rows, nextID, now, calls, started, debited, revoked, gw, src>>

NextStore ==
    \/ StoreClose
    \/ NextSeq

SpecStore == InitStore /\ [][NextStore]_vars

\* ------------------------------------------------------------ a statement that fails
\* One call at a time over a store whose single statements may fail: the
\* Scan of UpdateTokenCandlesLeft returns an error, the statements before
\* and after it run.
NextFault ==
    \/ NextSeq
    \/ \E c \in BagToSet(calls) : SettleScanFails(c) /\ UNCHANGED <<gw, src>>

SpecFault == Init /\ [][NextFault]_vars

\* ------------------------------------------------------------ the reading handlers
\* ValidateToken and GetTokenInfo in each of their outcomes: over a store
\* that is there, absent or closed, for a token that is empty, unknown,
\* live, expired or revoked, GetTokenInfo interleaved between its statements.
NextRead ==
    \/ Tick
    \/ StoreClose
    \/ CreateToken(<<PermRead>>, 1) /\ UNCHANGED <<gw, src>>
    \/ \E t \in TokenStrings : RevokeToken(t) /\ UNCHANGED <<gw, src>>
    \/ \E t \in TokenStrings : ValidateToken(t) /\ UNCHANGED <<gw, src>>
    \/ \E t \in TokenStrings : InfoFind(t) /\ UNCHANGED <<gw, src>>
    \/ \E c \in BagToSet(calls) : InfoScan(c) /\ UNCHANGED <<gw, src>>

SpecRead == InitStore /\ [][NextRead]_vars

\* ===================================================================== claims
Present(tok) == Matching(tok) # {}
Issued == 1..nextID
\* the stored quota of a token, an absent row counting as 0
Ledger(tok) == IF Present(tok) THEN QuotaOf(tok) ELSE 0
SettleInFlight(tok) ==
    \E c \in BagToSet(calls) : c.op = "Settle" /\ c.token = tok

\* C1: when a non-negative Settle on a token returns and no other Settle on
\* that token is still in flight, the ledger holds the creation allotment
\* less every amount settled with success (the row absent at 0 or below),
\* however the calls' statements interleaved - no update is lost.
C1_NoLostUpdate ==
    (/\ last.op = "Settle" /\ last.code = OK /\ last.arg >= 0
     /\ last.token \notin revoked
     /\ ~SettleInFlight(last.token))
    => Ledger(last.token) = Max(0, DefaultCandles - debited[last.token])

\* C2: a non-negative Settle that no other call interfered with returns
\* max(0, Q - d) for the quota Q it found; at 0 the row is gone, above 0 the
\* row is kept and stores the returned value.
C2_SettleAlone ==
    (last.op = "Settle" /\ last.arg >= 0 /\ last.code = OK /\ last.clean)
    => /\ last.val = Max(0, last.pre - last.arg)
       /\ last.val <= 0 => ~Present(last.token)
       /\ last.val > 0 => Present(last.token) /\ QuotaOf(last.token) = last.val

\* C2 witness: a Settle alone for more than the quota left, clamped to 0
C2_Witness ==
    /\ last.op = "Settle" /\ last.code = OK /\ last.clean
    /\ last.pre > 0 /\ last.arg > last.pre /\ last.val = 0

\* C3: a Settle with a negative amount returns the amount with no error and
\* leaves no row for the token, whatever the quota was.
C3_NegativeSettleDeletes ==
    (last.op = "Settle" /\ last.arg < 0)
    => last.code = OK /\ last.val = last.arg /\ ~Present(last.token)

\* C3 witness: a negative Settle on a token whose row was present
C3_Witness ==
    last.op = "Settle" /\ last.arg < 0 /\ last.pre > 0 /\ ~Present(last.token)

\* C4: every stored row has 0 < candles_left <= 5000.
C4_StoredQuotaPositive ==
    \A id \in DOMAIN rows :
        rows[id].CandlesLeft > 0 /\ rows[id].CandlesLeft <= DefaultCandles

\* C4 witness: a Settle has just brought a row with quota left to 0
C4_Witness ==
    /\ last.op = "Settle" /\ last.code = OK /\ last.arg = last.pre
    /\ last.val = 0 /\ ~Present(last.token)

\* C5: once the row of an issued token is gone it stays gone, and from then
\* on a Validate of the token answers valid=false and an Inspect or a
\* non-negative Settle that starts answers NotFound.
C5_DeadForever ==
    [][\A t \in Issued :
         ~Present(t) =>
           /\ ~Present(t)'
           /\ (last'.token = t /\ last'.op = "Validate")
                => last'.code = OK /\ last'.val = 0
           /\ (last'.token = t /\ last'.op \in {"Info", "Settle"}
               /\ last'.arg >= 0 /\ calls' = calls)
                => last'.code = NotFound]_vars

\* C5 witness: a Settle in flight when its row was deleted has returned a
\* positive quota, and there is no row
C5_Witness ==
    /\ last.op = "Settle" /\ last.code = OK /\ last.val > 0 /\ ~last.clean
    /\ ~Present(last.token)

\* C6: settled one call after the other and never revoked, a token holds
\* 5000 - s after amounts of total s < 5000, each Settle returning what is
\* left; the Settle that brings s to 5000 or more returns 0 and deletes the
\* row; a Validate after it answers valid=false.
C6_Scenario ==
    \A t \in Issued \ revoked :
        /\ Present(t) => debited[t] < DefaultCandles
                         /\ QuotaOf(t) = DefaultCandles - debited[t]
        /\ (Quiet /\ debited[t] >= DefaultCandles) => ~Present(t)
        /\ (last.token = t /\ last.op = "Settle" /\ last.code = OK /\ last.arg >= 0)
             => last.val = Max(0, DefaultCandles - debited[t])
        /\ (last.token = t /\ last.op = "Validate" /\ debited[t] >= DefaultCandles)
             => last.val = 0

\* C6 witness: Settle 100 then Settle 4900 on a fresh token, then Validate
C6_Witness ==
    /\ last.op = "Validate" /\ last.val = 0 /\ last.token \in Issued \ revoked
    /\ debited[last.token] = DefaultCandles

\* C7: Revoke of a present token deletes its row and answers success=true;
\* Revoke of an absent one answers success=false with no error and changes
\* nothing; so a Revoke right after a successful Revoke of the same token
\* answers false.
C7_RevokeIdempotent ==
    [][\A t \in TokenStrings \ {EmptyToken} :
         (last'.op = "Revoke" /\ last'.token = t) =>
           /\ last'.code = OK
           /\ IF Present(t)
              THEN last'.val = 1 /\ ~Present(t)'
              ELSE last'.val = 0 /\ rows' = rows
           /\ (last.op = "Revoke" /\ last.token = t /\ last.val = 1)
                => last'.val = 0]_vars

\* C7 witness: the second Revoke of a token, answering false
C7_Witness ==
    last.op = "Revoke" /\ last.val = 0 /\ last.code = OK /\ last.token \in revoked

\* C8: Validate of a token whose row is present and whose ExpiresAt has
\* passed answers valid=false with no error and leaves the table as it was
\* (so that a repeated call finds the same state and answers the same).
C8_ExpiredValidate ==
    [][(/\ last'.op = "Validate"
        /\ \E id \in DOMAIN rows :
              rows[id].TokenString = last'.token /\ now > rows[id].ExpiresAt)
       => last'.code = OK /\ last'.val = 0 /\ rows' = rows]_vars

\* C8 witness: a token valid when created, Validated after its expiry
C8_Witness ==
    /\ last.op = "Validate" /\ last.val = 0
    /\ \E id \in DOMAIN rows :
          /\ rows[id].TokenString = last.token
          /\ rows[id].ExpiresAt > 0 /\ now > rows[id].ExpiresAt

\* C9: a Validate right after the Create that returned the token answers
\* valid=true with exactly the permissions given to Create.
C9_CreateThenValidate ==
    [][(/\ last.op = "Create" /\ last.code = OK
        /\ last'.op = "Validate" /\ last'.token = last.token)
       => last'.val = 1 /\ Elems(last'.perms) = Elems(last.perms)]_vars

\* C10: Create with ExpiresIn <= 0 fails InvalidArgument, returns no token
\* and inserts no row.
C10_CreateRejected ==
    [][(last'.op = "Create" /\ last'.arg <= 0) =>
         /\ last'.code = InvalidArgument
         /\ last'.token = EmptyToken
         /\ rows' = rows /\ nextID' = nextID]_vars

\* C10 witness: Create with ExpiresIn = 0 refused
C10_Witness ==
    last.op = "Create" /\ last.arg = 0 /\ last.code = InvalidArgument
\* C11: a Settle with an amount >= 0 on a token that has no row fails with
\* NotFound and leaves the table as it was: no row inserted, none changed.
C11_SettleAbsent ==
    [][\A t \in TokenStrings :
         (/\ last'.op = "Settle" /\ last'.token = t /\ last'.arg >= 0
          /\ ~Present(t) /\ calls' = calls)
         => last'.code = NotFound /\ rows' = rows /\ nextID' = nextID]_vars

\* C11 witness: a Settle refused for a token with no row while another
\* token's row is stored
C11_Witness ==
    /\ last.op = "Settle" /\ last.arg >= 0 /\ last.code = NotFound
    /\ ~Present(last.token) /\ rows # << >>

\* C12: GetTokenInfo of a token with a row, which no other call changed
\* meanwhile, returns the candles_left stored (so what every Settle that
\* returned before has left) and the permissions stored; of a token with no
\* row it fails with NotFound, of the empty token string with InvalidArgument.
C12_Inspect ==
    [][\A t \in TokenStrings :
         (last'.op = "Info" /\ last'.token = t) =>
           /\ t = EmptyToken => last'.code = InvalidArgument
           /\ (t # EmptyToken /\ ~Present(t) /\ calls' = calls)
                => last'.code = NotFound
           /\ (Present(t) /\ last'.clean) =>
                /\ last'.code = OK
                /\ last'.val = QuotaOf(t)
                /\ Elems(last'.perms) =
                     Elems(Unmarshal(rows[First(t).ID].PermissionsJSON))]_vars

\* C13: Validate of the empty token string fails with InvalidArgument;
\* Validate of a non-empty token that has no row answers valid=false with
\* no error, and changes nothing.
C13_ValidateAbsent ==
    [][\A t \in TokenStrings :
         (last'.op = "Validate" /\ last'.token = t) =>
           /\ t = EmptyToken => last'.code = InvalidArgument
           /\ (t # EmptyToken /\ ~Present(t))
                => last'.code = OK /\ last'.val = 0 /\ rows' = rows]_vars

\* C13 witness: Validate of a token string no row has ever held
C13_Witness ==
    /\ last.op = "Validate" /\ last.token # EmptyToken
    /\ last.token \notin Issued /\ last.code = OK /\ last.val = 0

\* C14: on a server whose store handle is nil every RPC that returns -
\* ValidateToken, CreateToken, RevokeToken, UpdateTokenCandlesLeft with any
\* amount, GetTokenInfo - returns an error, none a success.
C14_NilStoreFails ==
    (db = "nil" /\ last.op # "Step") => last.code # OK

\* the place of a call or response in the order of the route
Rank(e) ==
    CASE e = "Validate" -> 1
      [] e = "Inspect" -> 2
      [] e = "Open" -> 3
      [] e \in {"EOF", "RecvErr"} -> 4
      [] e = "Settle" -> 5
      [] e = "Respond" -> 6

C16_Unauthorized ==
    [][/\ (/\ gw.stage = "Received" /\ gw'.stage # "Received"
           /\ ~(last'.op = "Validate" /\ last'.code = OK /\ last'.val = 1))
          => /\ gw'.stage = "Done" /\ gw'.status = StatusUnauthorized
             /\ rows' = rows /\ calls' = calls /\ started' = started
       /\ gw'.auth \in {"missing", "error", "invalid"}
          => /\ gw'.stage = "Done" /\ gw'.status = StatusUnauthorized
             /\ Elems(gw'.log) \subseteq {"Validate", "Respond"}
             /\ gw'.settleArg = NoQuota]_vars

\* C16 witness: a request with the token of a revoked row answered 401
\* on valid=false
C16_Witness ==
    /\ gw.status = StatusUnauthorized /\ gw.auth = "invalid"
    /\ gw.token \in revoked
    /\ last.op = "Validate" /\ last.code = OK /\ last.val = 0

\* C17: when the GetTokenInfo call of the pre-check returns with success a
\* CandlesLeft that is <= 0 or below the request's limit, the request is
\* answered 403 there: no stream has been or is opened, and no
\* UpdateTokenCandlesLeft is called.
C17_Forbidden ==
    [][/\ (/\ gw.stage = "Inspecting"
           /\ last'.op = "Info" /\ last'.code = OK
           /\ (last'.val <= 0 \/ last'.val < gw.limit))
          => /\ gw'.stage = "Done" /\ gw'.status = StatusForbidden
             /\ started' = started
       /\ (gw'.info # NoQuota /\ (gw'.info <= 0 \/ gw'.info < gw'.limit))
          => /\ gw'.stage = "Done" /\ gw'.status = StatusForbidden
             /\ Elems(gw'.log) \cap {"Open", "Settle"} = {}
             /\ gw'.settleArg = NoQuota]_vars

\* C17 witness: a limit above the quota left, answered 403
C17_Witness ==
    /\ gw.status = StatusForbidden
    /\ gw.info > 0 /\ gw.info < gw.limit
    /\ QuotaOf(gw.token) = gw.info

\* C18: every UpdateTokenCandlesLeft call the gateway makes for a request
\* carries the request's x-api-key and, as DecreaseCandles, the number of
\* records collected for it; a request answered 200 with n records has
\* made exactly that call with n.
C18_SettleAmount ==
    /\ "Settle" \in Elems(gw.log) =>
         gw.settleToken = gw.token /\ gw.settleArg = Len(gw.prices)
    /\ gw.status = StatusOK =>
         /\ Cardinality({i \in 1..Len(gw.log) : gw.log[i] = "Settle"}) = 1
         /\ gw.settleArg = Len(gw.prices)
    /\ \A c \in BagToSet(calls) :
         c.op = "Settle" => c.token = gw.token /\ c.d = Len(gw.prices)
    /\ last.op = "Settle" =>
         last.token = gw.token /\ last.arg = Len(gw.prices)

\* C18 witness: a 200 with every candle the exchange holds, the token's
\* row debited by as many
C18_Witness ==
    /\ gw.status = StatusOK /\ Len(gw.prices) = MaxCandles
    /\ last.op = "Settle" /\ last.code = OK /\ last.arg = MaxCandles
    /\ QuotaOf(gw.token) = DefaultCandles - MaxCandles

\* C19: a request whose stream failed after k records were received has,
\* when it is over, called UpdateTokenCandlesLeft for its token with k.
C19_SettleAfterStreamError ==
    (gw.stage = "Done" /\ "RecvErr" \in Elems(gw.log) /\ Len(gw.prices) > 0)
    => /\ "Settle" \in Elems(gw.log)
       /\ gw.settleToken = gw.token /\ gw.settleArg = Len(gw.prices)

\* C20: a request whose caller went away when k of the N records of the
\* stream had been received has, when it is over, called
\* UpdateTokenCandlesLeft with k - the call is not left out and carries
\* neither 0 nor N.
C20_SettleAfterDisconnect ==
    (gw.stage = "Done" /\ gw.cut > 0 /\ gw.cut < src.n)
    => /\ "Settle" \in Elems(gw.log)
       /\ gw.settleArg = gw.cut

\* C21: whatever becomes of the UpdateTokenCandlesLeft call - an error of
\* the auth service, NotFound, no answer - a request whose stream ended
\* with io.EOF is answered 200 with every record collected.
C21_SettleFailureKeepsResponse ==
    [][(gw.stage \in {"Collected", "Settling"} /\ gw'.stage # gw.stage)
       => /\ gw'.stage \in {"Settling", "Done"}
          /\ gw'.prices = gw.prices
          /\ gw'.stage = "Done" => gw'.status = StatusOK]_vars

\* C21 witness: the row deleted while the stream ran, the Settle answered
\* NotFound, the request 200 with its records
C21_Witness ==
    /\ gw.status = StatusOK /\ Len(gw.prices) > 0
    /\ last.op = "Settle" /\ last.code = NotFound /\ last.token = gw.token

\* how many times e stands in a log
Occurrences(log, e) == Cardinality({i \in 1..Len(log) : log[i] = e})
\* the UpdateTokenCandlesLeft handlers in flight
SettleCalls(B) == Copies(B, {c \in BagToSet(B) : c.op = "Settle"})

\* C22: a request makes at most one ValidateToken call and at most one
\* UpdateTokenCandlesLeft call, whatever they answer: a handler of the
\* latter starts only with the request's first call, at most one is in
\* flight, and a token's debit grows only by the amount of that one call.
C22_NoRetry ==
    [][/\ Occurrences(gw'.log, "Validate") <= 1
       /\ Occurrences(gw'.log, "Settle") <= 1
       /\ SettleCalls(calls') <= 1
       /\ SettleCalls(calls') > SettleCalls(calls)
          => "Settle" \notin Elems(gw.log) /\ "Settle" \in Elems(gw'.log)
       /\ \A t \in TokenStrings :
            debited'[t] # debited[t]
            => /\ t = gw.token /\ debited'[t] = debited[t] + gw.settleArg
               /\ SettleCalls(calls) = 1 /\ SettleCalls(calls') = 0]_vars

\* C22 witness: the call given up on the caller's cancellation, made once,
\* and its handler has debited the row once
C22_Witness ==
    /\ gw.stage = "Done" /\ gw.ctx = "canceled"
    /\ Occurrences(gw.log, "Settle") = 1
    /\ debited[gw.token] = gw.settleArg /\ gw.settleArg > 0
    /\ QuotaOf(gw.token) = DefaultCandles - gw.settleArg

\* C28: a statement of UpdateTokenCandlesLeft (amount >= 0) or of
\* GetTokenInfo that fails - here: every statement issued once the
\* connection is closed - makes the call return an error, never a success.
C28_StorageFailure ==
    [][(/\ db = "closed"
        /\ last'.op \in {"Settle", "Info"} /\ last'.arg >= 0)
       => last'.code # OK]_vars

\* C29: on the event-stream route the events pushed are the records
\* received, one price event each in their order, and when the relay has
\* stopped Settle has been called for the request's token with the number
\* of events pushed.
C29_RelayThenSettle ==
    gw.route = "sse"
        => /\ gw.events = [i \in 1..Len(gw.prices) |-> [event |-> "price", data |-> gw.prices[i]]]
           /\ gw.prices = [i \in 1..src.sent |-> i]
           /\ (gw.stage = "Done" /\ Len(gw.events) > 0)
                => /\ "Settle" \in Elems(gw.log)
                   /\ gw.settleToken = gw.token
                   /\ gw.settleArg = Len(gw.events)

\* C30: the candles_left stored for a row never grows from one state to
\* the next, overlapping Settle calls on the token included.
C30_QuotaNeverIncreases ==
    [][\A id \in DOMAIN rows \cap DOMAIN rows' :
         rows'[id].CandlesLeft <= rows[id].CandlesLeft]_vars

\* C23: once the gateway has opened the stream for a request with a positive
\* limit, the limit the price source received is the request's limit, and
\* the request receives, and is settled for, at most that many records.
C23_LimitUpstream ==
    ("Open" \in Elems(gw.log) /\ gw.limit > 0)
        => /\ src.limit = gw.limit
           /\ Len(gw.prices) <= gw.limit
           /\ gw.settleArg <= gw.limit

\* C24: when the handler has read a request without limit parameter, or
\* with one that is not positive, the limit its quota pre-check compares the
\* token's quota against is 100.
C24_GatewayDefaultLimit ==
    (gw.stage = "Inspecting"
        /\ (gw.limitStr = <<>> \/ (~ParseInt(gw.limitStr).err /\ ParseInt(gw.limitStr).v <= 0)))
            => gw.limit = 100

\* C25: for an exchange without adapter the price source answers
\* InvalidArgument, and the gateway's response to that request is a 4xx.
C25_UnknownExchange ==
    ("Open" \in Elems(gw.log) /\ gw.exchange \notin Registered)
        => /\ src.code = InvalidArgument
           /\ gw.stage = "Done" => gw.status \in 400..499

\* C26: every request received by the gateway eventually has its terminal
\* response, whether or not the access manager and the price source answer.
C26_Terminates == (gw.stage = "Received") ~> (gw.stage = "Done")

\* C27: at the price source, whenever the adapter is called it is asked for
\* exactly 100 records if the request's limit is not positive, and for
\* exactly the request's limit otherwise; a registered exchange always has
\* its adapter called.
C27_SourceLimit ==
    /\ src.exchange \in {"binance", "bybit"} => src.asked # 0
    /\ src.asked # 0 => src.asked = IF src.limit <= 0 THEN 100 ELSE src.limit

\* C27 witness: a request with a negative limit answered out of a request
\* for 100, every record the exchange holds sent.
C27_Witness ==
    /\ src.limit < 0 /\ src.asked = 100 /\ src.code = OK
    /\ src.n = MaxCandles /\ src.sent = src.n

\* C39: on the router with the Authorization header, a request whose token
\* ValidateToken reports as not valid is answered 401 and never has the
\* price stream opened.
C39_InvalidRejected ==
    (gw.route = "sse" /\ gw.auth = "invalid")
        => /\ gw.stage = "Done"
           /\ gw.status = StatusUnauthorized
           /\ "Open" \notin Elems(gw.log)

\* C31: a step of CreateToken, UpdateTokenCandlesLeft or RevokeToken for a
\* token leaves the row of every other token as it was (present with the
\* same quota, expiry and permissions), and adds no row of another token.
C31_PerTokenFrame ==
    [][/\ \A id \in DOMAIN rows :
            rows[id].TokenString # last'.token
                => id \in DOMAIN rows' /\ rows'[id] = rows[id]
       /\ \A id \in DOMAIN rows' \ DOMAIN rows :
            rows'[id].TokenString = last'.token]_vars

\* C31 witness: a settle of token 2 has written its row while a settle of
\* token 1 is between its statements, and token 1's row is as created.
C31_Witness ==
    /\ last.op = "Settle" /\ last.token = 2 /\ last.code = OK
    /\ QuotaOf(2) = DefaultCandles - 4900
    /\ QuotaOf(1) = DefaultCandles
    /\ \E c \in BagToSet(calls) : c.token = 1 /\ c.op = "Settle"

InfoCalls(B) == Copies(B, {c \in BagToSet(B) : c.op = "Info"})

\* C32: a step of ValidateToken or of GetTokenInfo, whatever its outcome,
\* leaves the table as it was: no row created, deleted or modified.
C32_ReadOnly ==
    [][(last'.op \in {"Validate", "Info"} \/ InfoCalls(calls') # InfoCalls(calls))
          => rows' = rows /\ nextID' = nextID]_vars

\* C32 witness: ValidateToken has answered not valid for an expired token,
\* whose row is still there with its quota.
C32_Witness ==
    /\ last.op = "Validate" /\ last.code = OK /\ last.val = 0
    /\ last.pre = DefaultCandles
    /\ QuotaOf(last.token) = DefaultCandles

\* C33: when the Scan of a call of UpdateTokenCandlesLeft has failed, the
\* rest of that call leaves the table as it was: the token's row is neither
\* deleted nor altered.
C33_ScanFailureKeepsLedger ==
    [][\A c \in BagToSet(calls) :
          (c.op = "Settle" /\ c.scanErr /\ last'.op = "Settle" /\ last'.arg >= 0)
              => rows' = rows]_vars

\* C34: a call of UpdateTokenCandlesLeft with an amount >= 0 that answers
\* success with a positive CandlesLeft has written a row that was there
\* before its write, and which holds that quota after it.
C34_PositiveMeansRow ==
    [][(last'.op = "Settle" /\ last'.arg >= 0 /\ last'.code = OK /\ last'.val > 0)
          => \E id \in DOMAIN rows \cap DOMAIN rows' :
                /\ rows'[id].TokenString = last'.token
                /\ rows'[id].CandlesLeft = last'.val]_vars

\* C35: the records returned with 200 to the requests of a token are never
\* more, all requests together, than the 5000 candles of the token's
\* allotment; stated for the requests whose pre-check and whose settlement
\* were both answered by the auth service without error.
C35_WithinAllotment ==
    (/\ gw.status = StatusOK /\ gw.info > 0
     /\ last.op = "Settle" /\ last.code = OK /\ last.token = gw.token)
        => Served(gw) <= 5000

\* C36: with one call at a time, a call of UpdateTokenCandlesLeft with an
\* amount d >= 0 takes the token's quota Q to SettleOnce(Q, d), and two such
\* calls with amounts a and then b take it where one call with a + b does;
\* a call with amount 0 on a present token leaves the table as it was and
\* returns Q.
C36_Additive ==
    [][(last'.op = "Settle" /\ last'.arg >= 0 /\ last'.code \in {OK, NotFound})
          => /\ \A id \in DOMAIN rows' :
                  rows'[id].TokenString = last'.token
                      => rows'[id].CandlesLeft = SettleOnce(last'.pre, last'.arg)
             /\ (\A id \in DOMAIN rows' : rows'[id].TokenString # last'.token)
                  => SettleOnce(last'.pre, last'.arg) = NoQuota
             /\ \A a, b \in {d \in DecreaseInputs : d >= 0} :
                  SettleOnce(SettleOnce(last'.pre, a), b) = SettleOnce(last'.pre, a + b)
             /\ (last'.arg = 0 /\ last'.code = OK)
                  => rows' = rows /\ last'.val = last'.pre]_vars

\* C36 witness: 100 and then 4900 settled on a fresh token, the second
\* call finding 4900 and leaving no row, as one call with 5000 would.
C36_Witness ==
    /\ last.op = "Settle" /\ last.code = OK
    /\ last.pre = DefaultCandles - 100 /\ last.arg = 4900
    /\ debited[last.token] = DefaultCandles
    /\ ~Present(last.token)

\* C37: for every ExpiresIn > 0 that CreateToken accepts, the ExpiresAt of
\* the new token is the creation time plus ExpiresIn seconds, and is later
\* than the creation time.
C37_ExpiresLater ==
    (last.op = "Create" /\ last.code = OK)
        => /\ last.val = now + last.arg * Second
           /\ last.val > now

\* C38: GetPrices of the price source sends the adapter's records one at a
\* time, the next in the adapter's order at each Send, and none beyond the
\* last; after an adapter's error (Internal) nothing has been sent; after a
\* Send that failed no further record is sent.
C38_SendLoop ==
    [][/\ src'.sent \in {0, src.sent, src.sent + 1}
       /\ src'.sent = src.sent + 1
            => /\ src.code = OK /\ src.sent < src.n
               /\ src' = [src EXCEPT !.sent = src.sent + 1]
       /\ src'.sent <= src'.n
       /\ src'.code = Internal => src'.sent = 0 /\ src'.exchange \in Registered
       /\ src'.code = Unknown => src'.sent < src'.n /\ src'.exchange \in Registered]_vars

\* C38 witness: the second Send of a call has failed: one record sent, the
\* others never will be.
C38_Witness == src.code = Unknown /\ src.sent = 1 /\ src.n = MaxCandles

\* C40 as stated: a request whose GetTokenInfo call returned an error, of
\* whatever kind, is not rejected by the pre-check, and the
\* UpdateTokenCandlesLeft call that ends it returns an error and leaves the
\* table as it was.
C40_InspectErrorSettleFails ==
    [][/\ (gw.stage \in {"Authenticated", "Inspecting"} /\ gw'.stage # gw.stage
             /\ gw'.infoCode \notin {NoCode, OK})
            => gw'.stage = "Checked"
       /\ (gw.infoCode \notin {NoCode, OK} /\ gw.stage \in {"Collected", "Settling"}
             /\ gw'.stage = "Done" /\ last'.op = "Settle")
            => last'.code # OK /\ rows' = rows]_vars

\* C40 amended: a request whose GetTokenInfo call returned NotFound is not
\* rejected by the pre-check; when its stream has ended normally it is
\* answered 200 with the records, and its UpdateTokenCandlesLeft call, if
\* the auth service answers it, returns NotFound and leaves the table as it
\* was.
C40_InspectNotFound ==
    [][/\ (gw.stage \in {"Authenticated", "Inspecting"} /\ gw'.stage # gw.stage
             /\ gw'.infoCode = NotFound)
            => gw'.stage = "Checked"
       /\ (gw.infoCode = NotFound /\ gw.stage \in {"Collected", "Settling"}
             /\ gw'.stage # gw.stage)
            => /\ gw'.stage = "Done" /\ gw'.status = StatusOK
               /\ gw'.prices = gw.prices
               /\ rows' = rows /\ debited' = debited
               /\ last'.op = "Settle" => last'.code = NotFound]_vars

\* C40 witness: a token revoked between ValidateToken and GetTokenInfo; the
\* request got its 200 with every record and its settlement was answered
\* NotFound.
C40_Witness ==
    /\ gw.stage = "Done" /\ gw.status = StatusOK
    /\ gw.auth = "valid" /\ gw.infoCode = NotFound
    /\ Len(gw.prices) = MaxCandles
    /\ last.op = "Settle" /\ last.code = NotFound /\ last.token = gw.token

====
